---- MODULE Spec2Model ----
(***************************************************************************)
(* The video downloader of app.py: the handler yt_vid_downloader, the      *)
(* strategy loop try_download over CLIENT_ORDER x FORMAT_ORDER, the        *)
(* options builder _opts_for with the cookie file, and the output          *)
(* resolver find_final_file over the downloads directory YTDL_DIR.         *)
(* The external downloader (YoutubeDL.download) is the environment: each   *)
(* invocation returns an exit code or raises, and on exit code 0 it has    *)
(* written base.<ext> for an extension of its own choice, or nothing.      *)
(*                                                                         *)
(* The video time crop editor of app.py: the handler video_cropper with    *)
(* parse_timecode, the media probe ffprobe_duration_seconds and the        *)
(* segment remover remove_segment_with_concat over the directories         *)
(* uploads/video_cropper and downloads/video_cropper.  ffprobe and ffmpeg  *)
(* are the environment: the probe prints the duration or fails, ffmpeg     *)
(* runs the filter graph it is handed and exits with a code.  Times are    *)
(* whole seconds and a stream is the sequence of its frames' timestamps.   *)
(*                                                                         *)
(* The image combiner of app.py, from the output name on: each request is  *)
(* served by a thread of its own, which looks for a free name in           *)
(* downloads/image_combiner and then saves the combined image under it.    *)
(*                                                                         *)
(* list_files over a directory that the environment fills and empties, and *)
(* the puzzle slicer image_to_puzzle, whose tiles are boxes of pixels.      *)
(***************************************************************************)
EXTENDS Integers, Sequences, FiniteSets

VARIABLES
    cookie,     \* COOKIE_PATH on disk: [exists, size]
    files,      \* YTDL_DIR: <<base, ext>> -> "none" | "old" | "cur"
    pc,         \* position of the handler thread
    url,        \* request.form video_url, stripped
    want,       \* want_format of the request
    base,       \* sanitize_basename(output_name)
    ci,         \* index into CLIENT_ORDER of the outer loop
    fi,         \* index into the recipe list of the inner loop
    last_err,   \* try_download's last_err
    log,        \* the "[yt] trying ..." lines of this fetch with the options
                \* handed to YoutubeDL, one per invocation, in order
    outcome,    \* how the latest finished invocation ended
    worst,      \* the gravest kind of failure of this fetch so far
    inflight,   \* downloader invocations started and not yet returned
    produced,   \* extension of the file the successful invocation wrote
    exc,        \* the exception try_download raised to the handler
    response,   \* what the handler returned
    cpc,        \* position of the video_cropper handler
    c_req,      \* the form of the crop request: file name and its content,
                \* start_time, end_time, output_name
    uploads,    \* uploads/video_cropper: name -> "old" | "cur"
    crop_out,   \* downloads/video_cropper: name -> "old" | "cur", for the
                \* names given in a form and the timestamped name of the
                \* clock's current second
    dur,        \* what ffprobe_duration_seconds gave the handler
    calls,      \* the ffmpeg command lines of this request, in order
    c_made,     \* the streams ffmpeg wrote to out_path in this request
    console,    \* what ffmpeg wrote to the stderr it inherits from the server
    c_response, \* what video_cropper returned
    ic_pc,      \* position of each image_combiner request
    ic_safe_out, \* safe_out of each request
    ic_out_path, \* out_path of each request
    ic_counter, \* counter of each request
    ic_seen,    \* the names in the directory when the request's loop ended
    ic_dir,     \* downloads/image_combiner: name -> the requests that wrote it
    lf_dir,     \* a tool directory: whether it exists, and its entries in the
                \* order iterdir yields them
    lf_result,  \* what list_files returned for lf_dir
    pz_req,     \* the form of the puzzle request and the size of its image
    pz_upload,  \* whether the image of the request was saved to uploads
    pz_pieces,  \* the tiles saved in pieces_dir, in order
    pz_response \* what image_to_puzzle returned

ytVars == <<cookie, files, pc, url, want, base, ci, fi, last_err, log,
            outcome, worst, inflight, produced, exc, response>>

cropVars == <<cpc, c_req, uploads, crop_out, dur, calls, c_made, console,
              c_response>>

icVars == <<ic_pc, ic_safe_out, ic_out_path, ic_counter, ic_seen, ic_dir>>

lfVars == <<lf_dir, lf_result>>

pzVars == <<pz_req, pz_upload, pz_pieces, pz_response>>

toolVars == <<icVars, lfVars, pzVars>>

vars == <<ytVars, cropVars, toolVars>>

None == "None"

\* last_err = None: no invocation has failed
NoErr == [n |-> 0, text |-> None, code |-> 0]

\* no invocation has finished
NoOutcome == [n |-> 0, kind |-> "none", code |-> 0, msg |-> ""]

\* no exception has left try_download
NoExc == [type |-> "none", last |-> NoErr]

\* the handler has not answered
NoResponse ==
    [kind |-> "none", text |-> "", last |-> NoErr, ext |-> None, made |-> "none"]

\* no crop request has been made
NoCropReq ==
    [filename |-> <<>>, content |-> 0, start_time |-> <<>>, end_time |-> <<>>,
     output_name |-> <<>>]

\* ffprobe_duration_seconds has not been called
NotProbed == [done |-> FALSE, ok |-> FALSE, v |-> 0]

\* video_cropper has not answered
NoCropResponse ==
    [kind |-> "none", text |-> "", code |-> 0, stderr |-> None, name |-> <<>>]

\* ------------------------------------------------------------ constants

\* faulty variant: the first two profiles swapped
CLIENT_ORDER_Swapped ==
    << <<"ios", TRUE>>, <<"web", TRUE>>, <<"android", TRUE>>,
       <<"web", FALSE>>, <<"android", FALSE>> >>

CLIENT_ORDER ==
    << <<"web", TRUE>>, <<"ios", TRUE>>, <<"android", TRUE>>,
       <<"web", FALSE>>, <<"android", FALSE>> >>

FORMAT_ORDER ==
    << <<"bestvideo[ext=mp4]+bestaudio[ext=m4a]/best[ext=mp4]", "mp4">>,
       <<"(bv*[vcodec*=avc1]/bv*)+(ba[acodec*=mp4a]/ba)/best", "mp4">>,
       <<"bv*+ba/best", None>>,
       <<"best", None>> >>

\* faulty variant: an audio request walks the video recipes
Recipes_VideoList(w) == FORMAT_ORDER

\* the inner list of try_download: FORMAT_ORDER, or the one audio recipe
Recipes(w) ==
    IF w # "mp3" THEN FORMAT_ORDER ELSE << <<"bestaudio/best", None>> >>

\* ------------------------------------------------------------ inputs

\* extensions of the files of the downloads directory
Exts == {"mp4", "mp3", "webm"}

\* extensions the external downloader may give the file it writes: the
\* one the postprocessor aims at, or that of the streams it picked
ToolExts(w) == IF w = "mp3" THEN {"mp3", "webm"} ELSE {"mp4", "webm"}

\* output_name values of the form, as character sequences
OutputNames == { <<"a">>, <<" ", "a">>, <<"a", ".", "m">> }

\* format values of the form
FormFormats == {"", "mp4", "mp3", "avi"}

\* video_url values of the form, stripped
Urls == {"", "u"}

\* exit codes of YoutubeDL.download
ExitCodes == {0, 1}

\* str(e) of the DownloadError the downloader raises
DownloadErrorMsgs ==
    { "ERROR: Requested format is not available",
      "HTTP Error 403: Forbidden",
      "ERROR: Video unavailable" }

\* str(e) of any other exception
OtherErrorMsgs == { "unexpected" }

\* marker in msg, for the three markers try_download looks for
Contains(msg, marker) ==
    \/ /\ marker = "Requested format is not available"
       /\ msg = "ERROR: Requested format is not available"
    \/ /\ marker \in {"403", "Forbidden"}
       /\ msg = "HTTP Error 403: Forbidden"

\* ------------------------------------------------------------ helpers

\* name.strip()
RECURSIVE LStrip(_)
LStrip(s) == IF s # <<>> /\ Head(s) = " " THEN LStrip(Tail(s)) ELSE s

RECURSIVE RStrip(_)
RStrip(s) ==
    IF s # <<>> /\ s[Len(s)] = " " THEN RStrip(SubSeq(s, 1, Len(s) - 1)) ELSE s

Strip(s) == LStrip(RStrip(s))

\* Path(name).stem for a name without separators: the name up to its last
\* dot, when that dot is neither the first nor the last character
LastDot(s) ==
    IF \E i \in 1..Len(s) : s[i] = "."
    THEN CHOOSE i \in 1..Len(s) :
            s[i] = "." /\ \A j \in (i + 1)..Len(s) : s[j] # "."
    ELSE 0

Stem(s) ==
    IF LastDot(s) > 1 /\ LastDot(s) < Len(s)
    THEN SubSeq(s, 1, LastDot(s) - 1)
    ELSE s

\* secure_filename on the alphabet of OutputNames: blanks become "_",
\* then leading and trailing "." and "_" are stripped
RECURSIVE LStripDots(_)
LStripDots(s) ==
    IF s # <<>> /\ Head(s) \in {".", "_"} THEN LStripDots(Tail(s)) ELSE s

RECURSIVE RStripDots(_)
RStripDots(s) ==
    IF s # <<>> /\ s[Len(s)] \in {".", "_"}
    THEN RStripDots(SubSeq(s, 1, Len(s) - 1))
    ELSE s

secure_filename(s) ==
    LStripDots(RStripDots([i \in 1..Len(s) |-> IF s[i] = " " THEN "_" ELSE s[i]]))

sanitize_basename(name) ==
    LET n == [i \in 1..Len(Strip(name)) |->
                 IF Strip(name)[i] \in {"/", "\\"} THEN " " ELSE Strip(name)[i]]
        b == secure_filename(Stem(n))
    IN  IF b # <<>> THEN b ELSE <<"v", "i", "d", "e", "o">>

Bases == { sanitize_basename(n) : n \in OutputNames }

\* faulty variant: the size of the cookie file is not looked at
_have_cookies_AnySize == cookie.exists

_have_cookies == cookie.exists /\ cookie.size > 0

\* the options handed to YoutubeDL; a key the dict does not hold is None
_opts_for(client, outtmpl, use_cookies, w, fmt, merge_to) ==
    [ outtmpl             |-> outtmpl,
      player_client       |-> client,
      cookiefile          |-> IF use_cookies /\ _have_cookies
                              THEN "COOKIE_PATH" ELSE None,
      format              |-> IF w = "mp3" THEN "bestaudio/best" ELSE fmt,
      merge_output_format |-> IF merge_to # None THEN merge_to ELSE None,
      postprocessors      |-> IF w = "mp3" THEN "FFmpegExtractAudio"
                              ELSE "FFmpegVideoRemuxer" ]

\* faulty variant: the newest file of the base name wins over the expected one
find_final_file_Newest(dir, b, w) ==
    IF \E e \in Exts : dir[<<b, e>>] = "cur"
    THEN { e \in Exts : dir[<<b, e>>] = "cur" }
    ELSE IF \E e \in Exts : dir[<<b, e>>] = "old"
         THEN { e \in Exts : dir[<<b, e>>] = "old" }
         ELSE { None }

\* the paths find_final_file may return: the expected file when it exists,
\* else any file the glob base.* yields first, else None
find_final_file(dir, b, w) ==
    LET expected == IF w = "mp3" THEN "mp3" ELSE "mp4"
    IN  IF dir[<<b, expected>>] # "none"
        THEN { expected }
        ELSE IF \E e \in Exts : dir[<<b, e>>] # "none"
             THEN { e \in Exts : dir[<<b, e>>] # "none" }
             ELSE { None }

\* ------------------------------------------------------------ crop helpers

\* file names of the uploaded video, as character sequences with the
\* extension as one token
FileNames == { <<>>, <<"v", ".", "MP4">>, <<"v", ".", "txt">> }

\* start_time and end_time values of the form, as character sequences:
\* empty, not a number, four parts, equal, reversed, negative, and SS,
\* MM:SS and HH:MM:SS times in order
TimePairs ==
    { << <<" ">>,           <<"1">> >>,
      << <<"0">>,           <<"x">> >>,
      << <<"1">>,           <<"1", ":", "1", ":", "1", ":", "1">> >>,
      << <<"1">>,           <<"1">> >>,
      << <<"0", ":", "2">>, <<"1">> >>,
      << <<"-", "1">>,      <<"1">> >>,
      << <<" ", "0">>,      <<"1", " ">> >>,
      << <<"0">>,           <<"0", ":", "2">> >>,
      << <<"1">>,           <<"0", ":", "2">> >>,
      << <<"0">>,           <<"0", ":", "0", ":", "3">> >>,
      << <<"1">>,           <<"0", ":", "0", ":", "3">> >>,
      << <<"0", ":", "2">>, <<"0", ":", "0", ":", "3">> >> }

\* output_name values of the crop form
CropOutputNames == { <<" ">>, <<"a">>, <<"a", ".", "mp4">> }

\* true durations of the uploaded video, in seconds
Durations == {2, 3}

\* str.lower() on the extension tokens
Lower(c) == IF c = "MP4" THEN "mp4" ELSE c

\* Path(name).suffix: from the last dot, when that dot is neither the first
\* nor the last character
Suffix(s) ==
    IF LastDot(s) > 1 /\ LastDot(s) < Len(s)
    THEN SubSeq(s, LastDot(s), Len(s))
    ELSE <<>>

ALLOWED_VIDEO_EXTS ==
    { <<".", "mp4">>, <<".", "mov">>, <<".", "mkv">>, <<".", "webm">>,
      <<".", "avi">>, <<".", "m4v">> }

allowed_video(filename) ==
    [i \in 1..Len(Suffix(filename)) |-> Lower(Suffix(filename)[i])]
        \in ALLOWED_VIDEO_EXTS

\* s.split(":")
RECURSIVE Split(_)
Split(s) ==
    IF \E i \in 1..Len(s) : s[i] = ":"
    THEN LET i == CHOOSE k \in 1..Len(s) :
                     s[k] = ":" /\ \A j \in 1..(k - 1) : s[j] # ":"
         IN  <<SubSeq(s, 1, i - 1)>> \o Split(SubSeq(s, i + 1, Len(s)))
    ELSE <<s>>

DigitChars == <<"0", "1", "2", "3", "4", "5", "6", "7", "8", "9">>

IsDigit(c) == \E d \in 1..Len(DigitChars) : DigitChars[d] = c

DigitVal(c) == (CHOOSE d \in 1..Len(DigitChars) : DigitChars[d] = c) - 1

RECURSIVE DigitsVal(_)
DigitsVal(p) ==
    IF p = <<>> THEN 0
    ELSE 10 * DigitsVal(SubSeq(p, 1, Len(p) - 1)) + DigitVal(p[Len(p)])

\* the texts int() and float() both take, in whole seconds: an optional
\* sign and one or more digits
IsNumber(p) ==
    LET d == IF p # <<>> /\ Head(p) \in {"-", "+"} THEN Tail(p) ELSE p
    IN  d # <<>> /\ \A i \in 1..Len(d) : IsDigit(d[i])

NumberOf(p) ==
    IF Head(p) = "-" THEN 0 - DigitsVal(Tail(p))
    ELSE IF Head(p) = "+" THEN DigitsVal(Tail(p))
    ELSE DigitsVal(p)

\* what parse_timecode gives: the seconds, or the ValueError it raises
Seconds(v) == [ok |-> TRUE, v |-> v, err |-> ""]
ValueError(msg) == [ok |-> FALSE, v |-> 0, err |-> msg]

\* parse_timecode; with more than three parts the text has three colons or
\* more, which _time_re (at most two) never matches
parse_timecode(s) ==
    LET t     == Strip(s)
        parts == Split(t)
    IN  IF t = <<>> THEN ValueError("Empty timecode")
        ELSE IF Len(parts) = 1
        THEN IF IsNumber(parts[1])
             THEN Seconds(NumberOf(parts[1]))
             ELSE ValueError("could not convert string to float")
        ELSE IF Len(parts) = 2
        THEN IF IsNumber(parts[1]) /\ IsNumber(parts[2])
             THEN Seconds(NumberOf(parts[1]) * 60 + NumberOf(parts[2]))
             ELSE ValueError("invalid literal")
        ELSE IF Len(parts) = 3
        THEN IF IsNumber(parts[1]) /\ IsNumber(parts[2]) /\ IsNumber(parts[3])
             THEN Seconds(NumberOf(parts[1]) * 3600 + NumberOf(parts[2]) * 60
                          + NumberOf(parts[3]))
             ELSE ValueError("invalid literal")
        ELSE ValueError("Invalid time format")

\* f"{x:g}" of a whole number of seconds
RECURSIVE FmtNat(_)
FmtNat(n) ==
    IF n < 10 THEN <<DigitChars[n + 1]>>
    ELSE FmtNat(n \div 10) \o <<DigitChars[(n % 10) + 1]>>

Fmt(n) == IF n < 0 THEN <<"-">> \o FmtNat(0 - n) ELSE FmtNat(n)

\* faulty variant: equal times pass
OrderRejected_Strict(start_s, end_s) == end_s < start_s

\* if end_s <= start_s: the request is rejected
OrderRejected(start_s, end_s) == end_s <= start_s

\* faulty variant: a failed probe blocks the request
DurationRejected_Blocking(d, start_s, end_s) ==
    (~d.ok) \/ (start_s < 0 \/ end_s > d.v)

\* if dur is not None and (start_s < 0 or end_s > dur): the request is
\* rejected
DurationRejected(d, start_s, end_s) ==
    d.ok /\ (start_s < 0 \/ end_s > d.v)

\* out_name of the handler; ts is the token of the clock's second
out_name(original_name, output_name, start_s, end_s, ts) ==
    IF output_name # <<>>
    THEN IF Suffix(secure_filename(output_name)) = <<>>
         THEN secure_filename(output_name) \o <<".", "mp4">>
         ELSE secure_filename(output_name)
    ELSE Stem(original_name) \o <<"_cropped_">> \o Fmt(start_s) \o <<"-">>
         \o Fmt(end_s) \o <<"_">> \o <<ts>> \o <<".", "mp4">>

\* the names with a timestamp in them
Stamped(n) == \E i \in 1..Len(n) : n[i] = "_cropped_"

\* faulty variant: the second part starts where the first one ends
remove_segment_with_concat_NoCut(in_path, start_s, end_s, out_path) ==
    [ prog      |-> "ffmpeg",
      overwrite |-> TRUE,
      input     |-> in_path,
      chains    |-> << [src |-> "v", key |-> "end",   val |-> start_s, out |-> "v0"],
                       [src |-> "a", key |-> "end",   val |-> start_s, out |-> "a0"],
                       [src |-> "v", key |-> "start", val |-> start_s, out |-> "v1"],
                       [src |-> "a", key |-> "start", val |-> start_s, out |-> "a1"] >>,
      concat    |-> [ins |-> <<"v0", "a0", "v1", "a1">>, n |-> 2, v |-> 1, a |-> 1],
      maps      |-> <<"v", "a">>,
      out       |-> out_path ]

\* the command line remove_segment_with_concat hands to check_call: -y,
\* the input, the four trim chains and the concat of the filter graph, the
\* two mapped labels and the output path
remove_segment_with_concat(in_path, start_s, end_s, out_path) ==
    [ prog      |-> "ffmpeg",
      overwrite |-> TRUE,
      input     |-> in_path,
      chains    |-> << [src |-> "v", key |-> "end",   val |-> start_s, out |-> "v0"],
                       [src |-> "a", key |-> "end",   val |-> start_s, out |-> "a0"],
                       [src |-> "v", key |-> "start", val |-> end_s,   out |-> "v1"],
                       [src |-> "a", key |-> "start", val |-> end_s,   out |-> "a1"] >>,
      concat    |-> [ins |-> <<"v0", "a0", "v1", "a1">>, n |-> 2, v |-> 1, a |-> 1],
      maps      |-> <<"v", "a">>,
      out       |-> out_path ]

\* a stream of the input: one frame for each second of d, with its
\* timestamp and the place in the source it shows
SourceStream(d) == [i \in 1..d |-> [pts |-> i - 1, src |-> i - 1]]

\* trim / atrim with end= or start=, then setpts=PTS-STARTPTS
Trim(frames, key, val) ==
    LET Kept(f) == IF key = "end" THEN f.pts < val ELSE f.pts >= val
        kept    == SelectSeq(frames, Kept)
    IN  [i \in 1..Len(kept) |-> [pts |-> i - 1, src |-> kept[i].src]]

\* concat of two segments of one stream each way: the second follows the
\* first on the time line
Concat(first, second) ==
    first \o [i \in 1..Len(second) |->
                 [pts |-> Len(first) + second[i].pts, src |-> second[i].src]]

\* the streams ffmpeg writes for a command line, on an input of d seconds
\* with one video and one audio stream
RunGraph(cmd, d) ==
    LET Label(l) ==
            LET c == CHOOSE k \in 1..Len(cmd.chains) : cmd.chains[k].out = l
            IN  Trim(SourceStream(d), cmd.chains[c].key, cmd.chains[c].val)
        ins   == cmd.concat.ins
        video == Concat(Label(ins[1]), Label(ins[3]))
        audio == Concat(Label(ins[2]), Label(ins[4]))
    IN  [m \in 1..Len(cmd.maps) |->
            IF cmd.maps[m] = "v" THEN [type |-> "video", frames |-> video]
            ELSE [type |-> "audio", frames |-> audio]]

\* ------------------------------------------------------------ state

\* the crop handler at rest, its directories empty
CropIdle ==
    /\ cpc = "idle"
    /\ c_req = NoCropReq
    /\ uploads = << >>
    /\ crop_out = << >>
    /\ dur = NotProbed
    /\ calls = << >>
    /\ c_made = << >>
    /\ console = << >>
    /\ c_response = NoCropResponse

\* the requests of the image combiner, one thread each
Requests == {"r1", "r2", "r3"}

\* no request of the image combiner has come in, its directory is empty
IcIdle ==
    /\ ic_pc = [r \in Requests |-> "idle"]
    /\ ic_safe_out = [r \in Requests |-> << >>]
    /\ ic_out_path = [r \in Requests |-> << >>]
    /\ ic_counter = [r \in Requests |-> 1]
    /\ ic_seen = [r \in Requests |-> {}]
    /\ ic_dir = << >>

\* list_files has not been called
NoList == [done |-> FALSE, names |-> << >>]

\* the tool directory as created at import, not yet listed
LfIdle ==
    /\ lf_dir = [exists |-> TRUE, entries |-> << >>]
    /\ lf_result = NoList

\* no puzzle request has been made
NoPuzzleReq ==
    [filename |-> << >>, opens |-> FALSE, W |-> 0, H |-> 0,
     rows_raw |-> << >>, cols_raw |-> << >>]

\* image_to_puzzle has not answered
NoPuzzleResponse == [kind |-> "none", text |-> "", zip |-> << >>]

PzIdle ==
    /\ pz_req = NoPuzzleReq
    /\ pz_upload = FALSE
    /\ pz_pieces = << >>
    /\ pz_response = NoPuzzleResponse

\* the other tools at rest
ToolsIdle == IcIdle /\ LfIdle /\ PzIdle

CookieStates ==
    { [exists |-> FALSE, size |-> 0],
      [exists |-> TRUE,  size |-> 0],
      [exists |-> TRUE,  size |-> 1] }

Init ==
    /\ cookie \in CookieStates
    /\ files = [f \in Bases \X Exts |-> "none"]
    /\ pc = "idle"
    /\ url = ""
    /\ want = "mp4"
    /\ base = <<>>
    /\ ci = 1
    /\ fi = 1
    /\ last_err = NoErr
    /\ log = <<>>
    /\ outcome = NoOutcome
    /\ worst = "none"
    /\ inflight = 0
    /\ produced = None
    /\ exc = NoExc
    /\ response = NoResponse
    /\ CropIdle
    /\ ToolsIdle

\* a new request finds the files of earlier requests in the directory
Aged(dir) == [f \in DOMAIN dir |-> IF dir[f] = "cur" THEN "old" ELSE dir[f]]

\* (request.form.get("format") or "mp4").strip().lower()
want_format(f) == IF f = "" THEN "mp4" ELSE f

\* the state a request starts from: nothing of the previous one is left
NewRequest(u, w, b) ==
    /\ url' = u
    /\ want' = w
    /\ base' = b
    /\ ci' = 1
    /\ fi' = 1
    /\ last_err' = NoErr
    /\ log' = <<>>
    /\ outcome' = NoOutcome
    /\ worst' = "none"
    /\ produced' = None
    /\ exc' = NoExc
    /\ files' = Aged(files)
    /\ UNCHANGED <<cookie, inflight>>

\* ------------------------------------------------------------ handler

\* POST without a URL
RejectNoUrl ==
    /\ pc = "idle"
    /\ \E f \in FormFormats :
          NewRequest("", want_format(f), <<>>)
    /\ response' = [NoResponse EXCEPT !.kind = "error",
                                      !.text = "Please provide a YouTube URL."]
    /\ pc' = "idle"

\* POST with a format other than mp4 and mp3
RejectFormat ==
    /\ pc = "idle"
    /\ \E u \in Urls \ {""}, f \in FormFormats :
          /\ want_format(f) \notin {"mp4", "mp3"}
          /\ NewRequest(u, want_format(f), <<>>)
    /\ response' = [NoResponse EXCEPT !.kind = "error",
                                      !.text = "Invalid format selection."]
    /\ pc' = "idle"

\* POST that reaches try_download
BeginFetch ==
    /\ pc = "idle"
    /\ \E u \in Urls \ {""}, f \in FormFormats, name \in OutputNames :
          /\ want_format(f) \in {"mp4", "mp3"}
          /\ NewRequest(u, want_format(f), sanitize_basename(name))
    /\ response' = NoResponse
    /\ pc' = "loop"

\* ------------------------------------------------------------ try_download

\* faulty variant: the inner loop stays on its recipe
Continue_Repeat(c, f, w) == <<c, f>>

\* the loop position after the body of the inner loop ends or continues
Continue(c, f, w) ==
    IF f < Len(Recipes(w)) THEN <<c, f + 1>> ELSE <<c + 1, 1>>

\* faulty variant: break leaves both loops
Break_Abandon(c, f, w) == <<Len(CLIENT_ORDER) + 1, 1>>

\* the loop position after break
Break(c, f, w) == <<c + 1, 1>>

\* faulty variant: the format marker is not looked for
Retryable_NoFormat(msg) ==
    \/ Contains(msg, "403")
    \/ Contains(msg, "Forbidden")

\* the test of the except DownloadError branch
Retryable(msg) ==
    \/ Contains(msg, "Requested format is not available")
    \/ Contains(msg, "403")
    \/ Contains(msg, "Forbidden")

\* faulty variant: only the first failure is kept
SetLastErr_First(old, n, text, code) ==
    IF old = NoErr THEN [n |-> n, text |-> text, code |-> code] ELSE old

\* last_err after a failed invocation; n tells the invocations apart
SetLastErr(old, n, text, code) == [n |-> n, text |-> text, code |-> code]

\* the kinds of failure, from the lightest to the gravest
Gravity(k) ==
    CASE k = "none"      -> 0
      [] k = "format"    -> 1
      [] k = "retryable" -> 2
      [] k = "nonzero"   -> 3
      [] k = "fatal"     -> 4

Graver(a, b) == IF Gravity(a) >= Gravity(b) THEN a ELSE b

\* the kind of failure a DownloadError message stands for
KindOfMsg(msg) ==
    IF msg = "ERROR: Requested format is not available" THEN "format"
    ELSE IF msg = "HTTP Error 403: Forbidden" THEN "retryable"
    ELSE "fatal"

\* the body of the inner loop up to the call of download
Invoke ==
    /\ ci <= Len(CLIENT_ORDER)
    /\ LET client      == CLIENT_ORDER[ci][1]
           use_cookies == CLIENT_ORDER[ci][2]
           fmt         == Recipes(want)[fi][1]
           merge_to    == Recipes(want)[fi][2]
           opts        == _opts_for(client, base, use_cookies, want, fmt, merge_to)
       IN  log' = Append(log, [ci |-> ci, fi |-> fi, client |-> client,
                               cookies |-> use_cookies, fmt |-> fmt,
                               merge_to |-> merge_to, opts |-> opts])
    /\ inflight' = inflight + 1
    /\ pc' = "call"
    /\ UNCHANGED <<cookie, files, url, want, base, ci, fi, last_err, outcome,
                   worst, produced, exc, response>>

\* faulty variant: the next invocation does not wait for the one in flight
StartAttempt_Overlap ==
    /\ pc \in {"loop", "call"}
    /\ Invoke

\* opts = _opts_for(...); print; YoutubeDL(opts).download([url]) is entered
StartAttempt ==
    /\ pc = "loop"
    /\ Invoke

\* faulty variant: exit code 0 does not return, the loop goes on
ReturnZero_NoReturn ==
    /\ pc = "call"
    /\ \E e \in ToolExts(want) \cup {None} :
          /\ produced' = e
          /\ files' = IF e = None THEN files
                      ELSE [files EXCEPT ![<<base, e>>] = "cur"]
    /\ outcome' = [n |-> Len(log), kind |-> "ret", code |-> 0, msg |-> ""]
    /\ ci' = Continue(ci, fi, want)[1]
    /\ fi' = Continue(ci, fi, want)[2]
    /\ inflight' = inflight - 1
    /\ pc' = "loop"
    /\ UNCHANGED <<cookie, url, want, base, last_err, log, worst, exc, response>>

\* ret == 0: return
ReturnZero ==
    /\ pc = "call"
    /\ \E e \in ToolExts(want) \cup {None} :
          /\ produced' = e
          /\ files' = IF e = None THEN files
                      ELSE [files EXCEPT ![<<base, e>>] = "cur"]
    /\ outcome' = [n |-> Len(log), kind |-> "ret", code |-> 0, msg |-> ""]
    /\ inflight' = inflight - 1
    /\ pc' = "returned"
    /\ UNCHANGED <<cookie, url, want, base, ci, fi, last_err, log, worst,
                   exc, response>>

\* faulty variant: a non-zero exit code gives the profile up
ReturnNonZero_Break ==
    /\ pc = "call"
    /\ \E ret \in ExitCodes \ {0} :
          /\ last_err' = SetLastErr(last_err, Len(log),
                                    "yt-dlp exited with code", ret)
          /\ outcome' = [n |-> Len(log), kind |-> "ret", code |-> ret, msg |-> ""]
    /\ worst' = Graver(worst, "nonzero")
    /\ ci' = Break(ci, fi, want)[1]
    /\ fi' = Break(ci, fi, want)[2]
    /\ inflight' = inflight - 1
    /\ pc' = "loop"
    /\ UNCHANGED <<cookie, files, url, want, base, log, produced, exc, response>>

\* ret # 0: last_err is set and the inner loop goes on
ReturnNonZero ==
    /\ pc = "call"
    /\ \E ret \in ExitCodes \ {0} :
          /\ last_err' = SetLastErr(last_err, Len(log),
                                    "yt-dlp exited with code", ret)
          /\ outcome' = [n |-> Len(log), kind |-> "ret", code |-> ret, msg |-> ""]
    /\ worst' = Graver(worst, "nonzero")
    /\ ci' = Continue(ci, fi, want)[1]
    /\ fi' = Continue(ci, fi, want)[2]
    /\ inflight' = inflight - 1
    /\ pc' = "loop"
    /\ UNCHANGED <<cookie, files, url, want, base, log, produced, exc, response>>

\* except DownloadError: continue on the three markers, else break
RaiseDownloadError ==
    /\ pc = "call"
    /\ \E msg \in DownloadErrorMsgs :
          /\ last_err' = SetLastErr(last_err, Len(log), msg, 0)
          /\ outcome' = [n |-> Len(log), kind |-> "DownloadError",
                         code |-> 0, msg |-> msg]
          /\ worst' = Graver(worst, KindOfMsg(msg))
          /\ LET nxt == IF Retryable(msg) THEN Continue(ci, fi, want)
                        ELSE Break(ci, fi, want)
             IN  ci' = nxt[1] /\ fi' = nxt[2]
    /\ inflight' = inflight - 1
    /\ pc' = "loop"
    /\ UNCHANGED <<cookie, files, url, want, base, log, produced, exc, response>>

\* faulty variant: the exception leaves try_download
RaiseOther_Propagate ==
    /\ pc = "call"
    /\ \E msg \in OtherErrorMsgs :
          /\ last_err' = SetLastErr(last_err, Len(log), msg, 0)
          /\ outcome' = [n |-> Len(log), kind |-> "Exception",
                         code |-> 0, msg |-> msg]
          /\ exc' = [type |-> "Exception",
                     last |-> SetLastErr(last_err, Len(log), msg, 0)]
    /\ worst' = Graver(worst, "fatal")
    /\ inflight' = inflight - 1
    /\ pc' = "raised"
    /\ UNCHANGED <<cookie, files, url, want, base, ci, fi, log, produced,
                   response>>

\* except Exception: break
RaiseOther ==
    /\ pc = "call"
    /\ \E msg \in OtherErrorMsgs :
          /\ last_err' = SetLastErr(last_err, Len(log), msg, 0)
          /\ outcome' = [n |-> Len(log), kind |-> "Exception",
                         code |-> 0, msg |-> msg]
    /\ worst' = Graver(worst, "fatal")
    /\ ci' = Break(ci, fi, want)[1]
    /\ fi' = Break(ci, fi, want)[2]
    /\ inflight' = inflight - 1
    /\ pc' = "loop"
    /\ UNCHANGED <<cookie, files, url, want, base, log, produced, exc, response>>

\* faulty variant: after the loops the function returns
Exhausted_Returns ==
    /\ pc = "loop"
    /\ ci > Len(CLIENT_ORDER)
    /\ pc' = "returned"
    /\ UNCHANGED <<cookie, files, url, want, base, ci, fi, last_err, log,
                   outcome, worst, inflight, produced, exc, response>>

\* faulty variant: after the loops the function waits instead of raising
Exhausted_Never ==
    /\ pc = "loop"
    /\ ci > Len(CLIENT_ORDER)
    /\ pc' = "wait"
    /\ UNCHANGED <<cookie, files, url, want, base, ci, fi, last_err, log,
                   outcome, worst, inflight, produced, exc, response>>

\* faulty variant: the error is raised before the last profile is tried
Exhausted_Early ==
    /\ pc = "loop"
    /\ ci >= Len(CLIENT_ORDER)
    /\ exc' = [type |-> "RuntimeError", last |-> last_err]
    /\ pc' = "raised"
    /\ UNCHANGED <<cookie, files, url, want, base, ci, fi, last_err, log,
                   outcome, worst, inflight, produced, response>>

\* raise RuntimeError(... last_err) after the loops
Exhausted ==
    /\ pc = "loop"
    /\ ci > Len(CLIENT_ORDER)
    /\ exc' = [type |-> "RuntimeError", last |-> last_err]
    /\ pc' = "raised"
    /\ UNCHANGED <<cookie, files, url, want, base, ci, fi, last_err, log,
                   outcome, worst, inflight, produced, response>>

\* except Exception as e: the handler renders the error
HandlerExcept ==
    /\ pc = "raised"
    /\ response' = [NoResponse EXCEPT !.kind = "error",
                                      !.text = "Download failed",
                                      !.last = exc.last]
    /\ pc' = "idle"
    /\ UNCHANGED <<cookie, files, url, want, base, ci, fi, last_err, log,
                   outcome, worst, inflight, produced, exc>>

\* faulty variant: a missing output file starts the fetch again
HandlerResolve_Refetch ==
    /\ pc = "returned"
    /\ \E p \in find_final_file(files, base, want) :
          /\ response' =
                IF p = None THEN NoResponse
                ELSE [NoResponse EXCEPT !.kind = "file", !.ext = p,
                                        !.made = files[<<base, p>>]]
          /\ pc' = IF p = None THEN "loop" ELSE "idle"
          /\ ci' = IF p = None THEN 1 ELSE ci
          /\ fi' = IF p = None THEN 1 ELSE fi
    /\ UNCHANGED <<cookie, files, url, want, base, last_err, log,
                   outcome, worst, inflight, produced, exc>>

\* find_final_file, then the error page or send_from_directory
HandlerResolve ==
    /\ pc = "returned"
    /\ \E p \in find_final_file(files, base, want) :
          response' =
             IF p = None
             THEN [NoResponse EXCEPT
                      !.kind = "error",
                      !.text = "Finished, but could not locate the output file."]
             ELSE [NoResponse EXCEPT !.kind = "file", !.ext = p,
                                     !.made = files[<<base, p>>]]
    /\ pc' = "idle"
    /\ UNCHANGED <<cookie, files, url, want, base, ci, fi, last_err, log,
                   outcome, worst, inflight, produced, exc>>

Next ==
    \/ RejectNoUrl /\ UNCHANGED <<cropVars, toolVars>>
    \/ RejectFormat /\ UNCHANGED <<cropVars, toolVars>>
    \/ BeginFetch /\ UNCHANGED <<cropVars, toolVars>>
    \/ StartAttempt /\ UNCHANGED <<cropVars, toolVars>>
    \/ ReturnZero /\ UNCHANGED <<cropVars, toolVars>>
    \/ ReturnNonZero /\ UNCHANGED <<cropVars, toolVars>>
    \/ RaiseDownloadError /\ UNCHANGED <<cropVars, toolVars>>
    \/ RaiseOther /\ UNCHANGED <<cropVars, toolVars>>
    \/ Exhausted /\ UNCHANGED <<cropVars, toolVars>>
    \/ HandlerExcept /\ UNCHANGED <<cropVars, toolVars>>
    \/ HandlerResolve /\ UNCHANGED <<cropVars, toolVars>>

Spec == Init /\ [][Next]_vars

\* ------------------------------------------------------------ one fetch

\* try_download entered once, on an empty directory
InitFetch ==
    /\ cookie \in CookieStates
    /\ files = [f \in Bases \X Exts |-> "none"]
    /\ pc = "loop"
    /\ url = "u"
    /\ want \in {"mp4", "mp3"}
    /\ base \in Bases
    /\ ci = 1
    /\ fi = 1
    /\ last_err = NoErr
    /\ log = <<>>
    /\ outcome = NoOutcome
    /\ worst = "none"
    /\ inflight = 0
    /\ produced = None
    /\ exc = NoExc
    /\ response = NoResponse
    /\ CropIdle
    /\ ToolsIdle

NextFetch ==
    \/ StartAttempt /\ UNCHANGED <<cropVars, toolVars>>
    \/ ReturnZero /\ UNCHANGED <<cropVars, toolVars>>
    \/ ReturnNonZero /\ UNCHANGED <<cropVars, toolVars>>
    \/ RaiseDownloadError /\ UNCHANGED <<cropVars, toolVars>>
    \/ RaiseOther /\ UNCHANGED <<cropVars, toolVars>>
    \/ Exhausted /\ UNCHANGED <<cropVars, toolVars>>

SpecFetch == InitFetch /\ [][NextFetch]_vars

\* the thread of the request keeps running and every invocation of the
\* downloader comes back
SpecFetchFair == SpecFetch /\ WF_vars(NextFetch)

\* ------------------------------------------------------------ video_cropper

\* what ffmpeg prints on its stderr when it fails
FfmpegDiagnostics == { "Invalid data found when processing input" }

\* a new request finds the files of earlier requests in a directory
AgedDir(dir) == [n \in DOMAIN dir |-> "old"]

\* a file written, or written over, in a directory
Put(dir, n) == [k \in DOMAIN dir \cup {n} |-> IF k = n THEN "cur" ELSE dir[k]]

\* the state of a file in a directory
At(dir, n) == IF n \in DOMAIN dir THEN dir[n] ELSE "none"

\* the parsed times of the request
start_s == parse_timecode(c_req.start_time).v
end_s == parse_timecode(c_req.end_time).v

\* the form of a POST is read: nothing of the previous request is left; d
\* is the length of the video in the file, 0 while the file is not read
CropNewRequest(fn, d, st, et, on) ==
    /\ c_req' = [filename |-> fn, content |-> d, start_time |-> Strip(st),
                 end_time |-> Strip(et), output_name |-> Strip(on)]
    /\ dur' = NotProbed
    /\ calls' = << >>
    /\ c_made' = << >>
    /\ console' = << >>

\* POST without a file, or with a file that is not a video
CropRejectFile ==
    /\ cpc = "idle"
    /\ \E fn \in FileNames, t \in TimePairs, on \in CropOutputNames :
          /\ fn = <<>> \/ ~allowed_video(fn)
          /\ CropNewRequest(fn, 0, t[1], t[2], on)
          /\ c_response' =
                [NoCropResponse EXCEPT
                    !.kind = "error",
                    !.text = IF fn = <<>> THEN "Please choose a video file."
                             ELSE "Unsupported video type."]
    /\ uploads' = AgedDir(uploads)
    /\ crop_out' = AgedDir(crop_out)
    /\ cpc' = "idle"

\* POST with a time parse_timecode raises ValueError on
CropRejectTimecode ==
    /\ cpc = "idle"
    /\ \E fn \in FileNames, t \in TimePairs, on \in CropOutputNames :
          /\ fn # <<>> /\ allowed_video(fn)
          /\ ~parse_timecode(t[1]).ok \/ ~parse_timecode(t[2]).ok
          /\ CropNewRequest(fn, 0, t[1], t[2], on)
          /\ c_response' =
                [NoCropResponse EXCEPT
                    !.kind = "error",
                    !.text = IF ~parse_timecode(t[1]).ok
                             THEN parse_timecode(t[1]).err
                             ELSE parse_timecode(t[2]).err]
    /\ uploads' = AgedDir(uploads)
    /\ crop_out' = AgedDir(crop_out)
    /\ cpc' = "idle"

\* faulty variant: the upload is saved before the times are compared
CropRejectOrder_Saved ==
    /\ cpc = "idle"
    /\ \E fn \in FileNames, t \in TimePairs, on \in CropOutputNames :
          /\ fn # <<>> /\ allowed_video(fn)
          /\ parse_timecode(t[1]).ok /\ parse_timecode(t[2]).ok
          /\ OrderRejected(parse_timecode(t[1]).v, parse_timecode(t[2]).v)
          /\ CropNewRequest(fn, 0, t[1], t[2], on)
          /\ uploads' = Put(AgedDir(uploads), secure_filename(fn))
    /\ c_response' =
          [NoCropResponse EXCEPT
              !.kind = "error",
              !.text = "End time must be greater than start time."]
    /\ crop_out' = AgedDir(crop_out)
    /\ cpc' = "idle"

\* POST with an end time that is not after the start time
CropRejectOrder ==
    /\ cpc = "idle"
    /\ \E fn \in FileNames, t \in TimePairs, on \in CropOutputNames :
          /\ fn # <<>> /\ allowed_video(fn)
          /\ parse_timecode(t[1]).ok /\ parse_timecode(t[2]).ok
          /\ OrderRejected(parse_timecode(t[1]).v, parse_timecode(t[2]).v)
          /\ CropNewRequest(fn, 0, t[1], t[2], on)
    /\ c_response' =
          [NoCropResponse EXCEPT
              !.kind = "error",
              !.text = "End time must be greater than start time."]
    /\ uploads' = AgedDir(uploads)
    /\ crop_out' = AgedDir(crop_out)
    /\ cpc' = "idle"

\* POST that passes the checks of the form: the upload is saved and
\* ffprobe_duration_seconds is called
CropSaveUpload ==
    /\ cpc = "idle"
    /\ \E fn \in FileNames, d \in Durations, t \in TimePairs,
          on \in CropOutputNames :
          /\ fn # <<>> /\ allowed_video(fn)
          /\ parse_timecode(t[1]).ok /\ parse_timecode(t[2]).ok
          /\ ~OrderRejected(parse_timecode(t[1]).v, parse_timecode(t[2]).v)
          /\ CropNewRequest(fn, d, t[1], t[2], on)
          /\ uploads' = Put(AgedDir(uploads), secure_filename(fn))
    /\ crop_out' = AgedDir(crop_out)
    /\ c_response' = NoCropResponse
    /\ cpc' = "probe"

\* the handler from the result d of the probe on: the duration check, then
\* out_name and the call of remove_segment_with_concat; same tells whether
\* the clock still shows the second of the latest timestamped name
AfterProbe(d, same) ==
    /\ dur' = d
    /\ IF DurationRejected(d, start_s, end_s)
       THEN /\ c_response' =
                  [NoCropResponse EXCEPT
                      !.kind = "error",
                      !.text = "Times must be within video duration"]
            /\ cpc' = "idle"
            /\ UNCHANGED <<calls, crop_out>>
       ELSE /\ calls' = Append(calls,
                  remove_segment_with_concat(
                      secure_filename(c_req.filename), start_s, end_s,
                      out_name(secure_filename(c_req.filename),
                               c_req.output_name, start_s, end_s, "ts")))
            /\ crop_out' =
                  LET mine == out_name(secure_filename(c_req.filename),
                                       c_req.output_name, start_s, end_s, "ts")
                      kept == {k \in DOMAIN crop_out :
                                  ~Stamped(k) \/ (same /\ k = mine)}
                  IN  [n \in kept |-> crop_out[n]]
            /\ cpc' = "ffmpeg"
            /\ UNCHANGED c_response
    /\ UNCHANGED <<c_req, uploads, c_made, console>>

\* ffprobe prints the duration of the upload
CropProbeOk ==
    /\ cpc = "probe"
    /\ \E same \in BOOLEAN :
          AfterProbe([done |-> TRUE, ok |-> TRUE, v |-> c_req.content], same)

\* ffprobe is missing, exits non-zero or prints no number: dur = None
CropProbeFail ==
    /\ cpc = "probe"
    /\ \E same \in BOOLEAN :
          AfterProbe([done |-> TRUE, ok |-> FALSE, v |-> 0], same)

\* check_call returns: ffmpeg exited with 0 and the file is sent
FfmpegExitZero ==
    /\ cpc = "ffmpeg"
    /\ c_made' = RunGraph(calls[Len(calls)], c_req.content)
    /\ crop_out' = Put(crop_out, calls[Len(calls)].out)
    /\ c_response' = [NoCropResponse EXCEPT !.kind = "file",
                                            !.name = calls[Len(calls)].out]
    /\ cpc' = "idle"
    /\ UNCHANGED <<c_req, uploads, dur, calls, console>>

\* check_call raises CalledProcessError: ffmpeg exited with another code,
\* having opened its output file or not
FfmpegExitNonZero ==
    /\ cpc = "ffmpeg"
    /\ \E ret \in ExitCodes \ {0}, diag \in FfmpegDiagnostics, opened \in BOOLEAN :
          /\ console' = Append(console, diag)
          /\ crop_out' = IF opened THEN Put(crop_out, calls[Len(calls)].out)
                         ELSE crop_out
          /\ c_response' = [NoCropResponse EXCEPT
                               !.kind = "error",
                               !.text = "ffmpeg failed: Command returned non-zero exit status",
                               !.code = ret]
    /\ cpc' = "idle"
    /\ UNCHANGED <<c_req, uploads, dur, calls, c_made>>

\* check_call raises another exception: ffmpeg could not be started
FfmpegNotStarted ==
    /\ cpc = "ffmpeg"
    /\ c_response' = [NoCropResponse EXCEPT !.kind = "error",
                                            !.text = "No such file or directory: ffmpeg"]
    /\ cpc' = "idle"
    /\ UNCHANGED <<c_req, uploads, crop_out, dur, calls, c_made, console>>

NextCrop ==
    \/ CropRejectFile /\ UNCHANGED <<ytVars, toolVars>>
    \/ CropRejectTimecode /\ UNCHANGED <<ytVars, toolVars>>
    \/ CropRejectOrder /\ UNCHANGED <<ytVars, toolVars>>
    \/ CropSaveUpload /\ UNCHANGED <<ytVars, toolVars>>
    \/ CropProbeOk /\ UNCHANGED <<ytVars, toolVars>>
    \/ CropProbeFail /\ UNCHANGED <<ytVars, toolVars>>
    \/ FfmpegExitZero /\ UNCHANGED <<ytVars, toolVars>>
    \/ FfmpegExitNonZero /\ UNCHANGED <<ytVars, toolVars>>
    \/ FfmpegNotStarted /\ UNCHANGED <<ytVars, toolVars>>

\* the crop handler alone, the downloader at rest; the cookie file plays
\* no part in it
InitCrop == Init /\ ~cookie.exists

SpecCrop == InitCrop /\ [][NextCrop]_vars

\* ------------------------------------------------------------ image_combiner

\* output_name values of the combiner form, stripped
RawNames == { <<"a">>, <<"a", "_", "1">>, <<"a", ".", "png">> }

\* os.path.splitext for a name without separators
SplitExt(s) ==
    IF LastDot(s) > 1
    THEN <<SubSeq(s, 1, LastDot(s) - 1), SubSeq(s, LastDot(s), Len(s))>>
    ELSE <<s, << >> >>

\* ensure_ext(filename, ".png") on lower-case names
ensure_ext(filename, desired_ext) ==
    LET b == IF SplitExt(filename)[1] = << >> THEN <<"file">>
             ELSE SplitExt(filename)[1]
    IN  IF SplitExt(filename)[2] # desired_ext THEN b \o desired_ext
        ELSE filename

\* faulty variant: no name is ever found taken
out_path_exists_Never(p) == FALSE

\* out_path.exists()
out_path_exists(p) == p \in DOMAIN ic_dir

\* a POST with two images or more has been combined: safe_out, out_path
\* and counter are set
IcBegin(r) ==
    /\ ic_pc[r] = "idle"
    /\ \E raw_name \in RawNames :
          LET safe_out == ensure_ext(secure_filename(raw_name), <<".", "png">>)
          IN  /\ ic_safe_out' = [ic_safe_out EXCEPT ![r] = safe_out]
              /\ ic_out_path' = [ic_out_path EXCEPT ![r] = safe_out]
    /\ ic_counter' = [ic_counter EXCEPT ![r] = 1]
    /\ ic_pc' = [ic_pc EXCEPT ![r] = "loop"]
    /\ UNCHANGED <<ic_seen, ic_dir>>

\* while out_path.exists(): the next candidate name
IcTaken(r) ==
    /\ ic_pc[r] = "loop"
    /\ out_path_exists(ic_out_path[r])
    /\ ic_out_path' =
          [ic_out_path EXCEPT ![r] =
              SplitExt(ic_safe_out[r])[1] \o <<"_">> \o Fmt(ic_counter[r])
                  \o SplitExt(ic_safe_out[r])[2]]
    /\ ic_counter' = [ic_counter EXCEPT ![r] = ic_counter[r] + 1]
    /\ UNCHANGED <<ic_pc, ic_safe_out, ic_seen, ic_dir>>

\* the loop ends: out_path does not exist
IcFree(r) ==
    /\ ic_pc[r] = "loop"
    /\ ~out_path_exists(ic_out_path[r])
    /\ ic_seen' = [ic_seen EXCEPT ![r] = DOMAIN ic_dir]
    /\ ic_pc' = [ic_pc EXCEPT ![r] = "save"]
    /\ UNCHANGED <<ic_safe_out, ic_out_path, ic_counter, ic_dir>>

\* combined.save(out_path), then send_file
IcSave(r) ==
    /\ ic_pc[r] = "save"
    /\ ic_dir' =
          [n \in DOMAIN ic_dir \cup {ic_out_path[r]} |->
              IF n = ic_out_path[r]
              THEN (IF n \in DOMAIN ic_dir THEN ic_dir[n] ELSE << >>) \o <<r>>
              ELSE ic_dir[n]]
    /\ ic_pc' = [ic_pc EXCEPT ![r] = "done"]
    /\ UNCHANGED <<ic_safe_out, ic_out_path, ic_counter, ic_seen>>

NextCombine ==
    \/ \E r \in Requests : IcBegin(r) /\ UNCHANGED <<ytVars, cropVars, lfVars, pzVars>>
    \/ \E r \in Requests : IcTaken(r) /\ UNCHANGED <<ytVars, cropVars, lfVars, pzVars>>
    \/ \E r \in Requests : IcFree(r) /\ UNCHANGED <<ytVars, cropVars, lfVars, pzVars>>
    \/ \E r \in Requests : IcSave(r) /\ UNCHANGED <<ytVars, cropVars, lfVars, pzVars>>

\* concurrent requests of the image combiner, the other handlers at rest
SpecCombine == InitCrop /\ [][NextCombine]_vars

\* ------------------------------------------------------------ list_files

\* names, kinds and modification times of the entries of a directory
EntryNames == {"a", "b", "c"}
EntryKinds == {"file", "dir"}
Mtimes == {1, 2}

\* the sequences over S without repetition, up to the length of S
RECURSIVE Arrangements(_)
Arrangements(S) ==
    {<< >>} \cup
    UNION { { <<x>> \o t : t \in Arrangements(S \ {x}) } : x \in S }

\* the states of a directory: missing, or entries of distinct names in the
\* order iterdir yields them
Dirs ==
    { [exists |-> FALSE, entries |-> << >>] } \cup
    { [exists |-> TRUE, entries |-> e] :
        e \in UNION { { [i \in 1..Len(n) |->
                            [name |-> n[i], kind |-> k[i], mtime |-> m[i]]] :
                          k \in [1..Len(n) -> EntryKinds],
                          m \in [1..Len(n) -> Mtimes] } :
                      n \in Arrangements(EntryNames) } }

\* faulty variant: ascending order
Before_Ascending(x, y) == x.mtime < y.mtime

\* the order of files.sort(key=st_mtime, reverse=True): x goes before y
Before(x, y) == x.mtime > y.mtime

\* list.sort is stable: an element goes behind those it does not precede
RECURSIVE Insert(_, _)
Insert(sorted, x) ==
    IF sorted = << >> THEN <<x>>
    ELSE IF Before(x, sorted[Len(sorted)])
         THEN Insert(SubSeq(sorted, 1, Len(sorted) - 1), x)
                  \o <<sorted[Len(sorted)]>>
         ELSE sorted \o <<x>>

RECURSIVE Sort(_)
Sort(s) ==
    IF s = << >> THEN << >>
    ELSE Insert(Sort(SubSeq(s, 1, Len(s) - 1)), s[Len(s)])

\* p.is_file()
is_file(e) == e.kind = "file"

list_files(d) ==
    IF ~d.exists THEN << >>
    ELSE LET fs == Sort(SelectSeq(d.entries, is_file))
         IN  [i \in 1..Len(fs) |-> fs[i].name]

\* files are created, touched, removed, or the directory is
LfChange ==
    /\ lf_dir' \in Dirs
    /\ lf_dir' # lf_dir
    /\ lf_result' = NoList

\* a call of list_files
LfList ==
    /\ ~lf_result.done
    /\ lf_result' = [done |-> TRUE, names |-> list_files(lf_dir)]
    /\ UNCHANGED lf_dir

NextList ==
    \/ LfChange /\ UNCHANGED <<ytVars, cropVars, icVars, pzVars>>
    \/ LfList /\ UNCHANGED <<ytVars, cropVars, icVars, pzVars>>

\* list_files alone, the handlers at rest
SpecList == InitCrop /\ [][NextList]_vars

\* ------------------------------------------------------------ image_to_puzzle

\* file names of the uploaded image
ImageNames == { << >>, <<"p", ".", "png">>, <<"p", ".", "gif">> }

\* rows and cols values of the form, stripped
CountTexts ==
    { <<"x">>, <<"0">>, <<"1">>, <<"2">>, <<"4", "0", "0", "1">> }

\* widths and heights of the uploaded image, in pixels
Widths == {1, 3, 4}
Heights == {1, 3}

ALLOWED_IMG_EXTS ==
    { <<".", "png">>, <<".", "jpg">>, <<".", "jpeg">>, <<".", "webp">>,
      <<".", "bmp">> }

allowed_image(filename) ==
    [i \in 1..Len(Suffix(filename)) |-> Lower(Suffix(filename)[i])]
        \in ALLOWED_IMG_EXTS

\* rows and cols of the request, once int() has read them
rows == NumberOf(pz_req.rows_raw)
cols == NumberOf(pz_req.cols_raw)

\* tile_w of column c and tile_h of row r, both counted from 0
tile_w(c, W, n_cols) == (W \div n_cols) + (IF c < W % n_cols THEN 1 ELSE 0)
tile_h(r, H, n_rows) == (H \div n_rows) + (IF r < H % n_rows THEN 1 ELSE 0)

\* the boxes the inner loop crops in row r from column c on, x being the
\* left edge reached
RECURSIVE RowTiles(_, _, _, _, _, _, _, _)
RowTiles(r, c, x, y, W, H, n_rows, n_cols) ==
    IF c >= n_cols THEN << >>
    ELSE <<[r |-> r + 1, c |-> c + 1, x0 |-> x, y0 |-> y,
            x1 |-> x + tile_w(c, W, n_cols),
            y1 |-> y + tile_h(r, H, n_rows)]>>
         \o RowTiles(r, c + 1, x + tile_w(c, W, n_cols), y, W, H, n_rows, n_cols)

\* the boxes the outer loop crops from row r on, y being the top edge reached
RECURSIVE Tiles(_, _, _, _, _, _)
Tiles(r, y, W, H, n_rows, n_cols) ==
    IF r >= n_rows THEN << >>
    ELSE RowTiles(r, 0, 0, y, W, H, n_rows, n_cols)
         \o Tiles(r + 1, y + tile_h(r, H, n_rows), W, H, n_rows, n_cols)

\* a tile without pixels
Empty(t) == t.x1 = t.x0 \/ t.y1 = t.y0

\* the form of a POST is read
PzNewRequest(fn, o, W, H, rr, cr) ==
    /\ pz_req' = [filename |-> fn, opens |-> o, W |-> W, H |-> H,
                  rows_raw |-> rr, cols_raw |-> cr]

\* rows and cols pass the checks of the handler
CountsAccepted(rr, cr) ==
    /\ IsNumber(rr) /\ IsNumber(cr)
    /\ NumberOf(rr) >= 1 /\ NumberOf(cr) >= 1
    /\ NumberOf(rr) * NumberOf(cr) <= 4000

\* POST without a file, or with a file that is not an image
PzRejectFile ==
    /\ \E fn \in ImageNames, rr \in CountTexts, cr \in CountTexts :
          /\ fn = << >> \/ ~allowed_image(fn)
          /\ PzNewRequest(fn, FALSE, 0, 0, rr, cr)
          /\ pz_response' =
                [NoPuzzleResponse EXCEPT
                    !.kind = "error",
                    !.text = IF fn = << >> THEN "Please choose an image file."
                             ELSE "Unsupported image format. Use PNG/JPG/JPEG/WEBP/BMP."]
    /\ UNCHANGED <<pz_upload, pz_pieces>>

\* POST with rows or cols that are no integers, below 1, or too many
PzRejectCounts ==
    /\ \E fn \in ImageNames, rr \in CountTexts, cr \in CountTexts :
          /\ fn # << >> /\ allowed_image(fn)
          /\ ~CountsAccepted(rr, cr)
          /\ PzNewRequest(fn, FALSE, 0, 0, rr, cr)
          /\ pz_response' =
                [NoPuzzleResponse EXCEPT
                    !.kind = "error",
                    !.text = IF ~(IsNumber(rr) /\ IsNumber(cr))
                             THEN "Rows and columns must be integers."
                             ELSE IF NumberOf(rr) < 1 \/ NumberOf(cr) < 1
                             THEN "Rows and columns must be >= 1."
                             ELSE "Please keep total pieces <= 4000."]
    /\ UNCHANGED <<pz_upload, pz_pieces>>

\* the upload is saved and Image.open raises
PzOpenFails ==
    /\ \E fn \in ImageNames, rr \in CountTexts, cr \in CountTexts :
          /\ fn # << >> /\ allowed_image(fn)
          /\ CountsAccepted(rr, cr)
          /\ PzNewRequest(fn, FALSE, 0, 0, rr, cr)
    /\ pz_upload' = TRUE
    /\ pz_response' = [NoPuzzleResponse EXCEPT !.kind = "error",
                                              !.text = "Could not open image"]
    /\ UNCHANGED pz_pieces

\* the image is opened, pieces_dir is emptied, every tile is cropped and
\* saved, the ZIP is written and sent
PzSlice ==
    /\ \E fn \in ImageNames, rr \in CountTexts, cr \in CountTexts,
          W \in Widths, H \in Heights :
          /\ fn # << >> /\ allowed_image(fn)
          /\ CountsAccepted(rr, cr)
          /\ PzNewRequest(fn, TRUE, W, H, rr, cr)
          /\ pz_pieces' = Tiles(0, 0, W, H, NumberOf(rr), NumberOf(cr))
          /\ pz_response' =
                [NoPuzzleResponse EXCEPT
                    !.kind = "file",
                    !.zip = Stem(secure_filename(fn)) \o <<"_">>
                            \o Fmt(NumberOf(rr)) \o <<"x">>
                            \o Fmt(NumberOf(cr)) \o <<".", "zip">>]
    /\ pz_upload' = TRUE

\* the image is opened and pieces_dir is emptied; the save of a tile
\* without pixels raises, which the handler does not catch
PzSaveRaises ==
    /\ \E fn \in ImageNames, rr \in CountTexts, cr \in CountTexts,
          W \in Widths, H \in Heights :
          LET tiles == Tiles(0, 0, W, H, NumberOf(rr), NumberOf(cr))
          IN  /\ fn # << >> /\ allowed_image(fn)
              /\ CountsAccepted(rr, cr)
              /\ \E i \in 1..Len(tiles) : Empty(tiles[i])
              /\ PzNewRequest(fn, TRUE, W, H, rr, cr)
              /\ pz_pieces' =
                    SubSeq(tiles, 1,
                           (CHOOSE i \in 1..Len(tiles) :
                               /\ Empty(tiles[i])
                               /\ \A j \in 1..(i - 1) : ~Empty(tiles[j])) - 1)
    /\ pz_response' = [NoPuzzleResponse EXCEPT
                          !.kind = "exception",
                          !.text = "tile cannot extend outside image"]
    /\ pz_upload' = TRUE

NextPuzzle ==
    \/ PzRejectFile /\ UNCHANGED <<ytVars, cropVars, icVars, lfVars>>
    \/ PzRejectCounts /\ UNCHANGED <<ytVars, cropVars, icVars, lfVars>>
    \/ PzOpenFails /\ UNCHANGED <<ytVars, cropVars, icVars, lfVars>>
    \/ PzSlice /\ UNCHANGED <<ytVars, cropVars, icVars, lfVars>>
    \/ PzSaveRaises /\ UNCHANGED <<ytVars, cropVars, icVars, lfVars>>

\* the puzzle slicer alone, the other handlers at rest
SpecPuzzle == InitCrop /\ [][NextPuzzle]_vars

\* ------------------------------------------------------------ claims

\* the latest finished invocation returned exit code 0
Succeeded == outcome.kind = "ret" /\ outcome.code = 0

\* the latest finished invocation raised and was not classified retryable
FailedFatally ==
    \/ outcome.kind = "Exception"
    \/ outcome.kind = "DownloadError" /\ KindOfMsg(outcome.msg) = "fatal"

\* the number of (profile, recipe) pairs of a request
Combinations(w) == Len(CLIENT_ORDER) * Len(Recipes(w))

\* the place of a log line in profile-major order
PairIndex(l, w) == (l.ci - 1) * Len(Recipes(w)) + l.fi

\* C1: once an invocation has returned exit code 0 the fetch has ended in
\* success: try_download has returned, that invocation is the last one made
\* and none is in flight, whatever the earlier invocations did.
C1_FirstSuccessWins ==
    Succeeded =>
        /\ pc = "returned"
        /\ Len(log) = outcome.n
        /\ inflight = 0
        /\ exc = NoExc

C1_Witness ==
    /\ Succeeded
    /\ worst = "fatal"
    /\ Len(log) > 2
    /\ Len(log) < Combinations(want)

\* C2: when every invocation before the k-th pair failed retryably and the
\* k-th returned 0 and wrote a file, exactly k invocations were made and the
\* handler serves the file that invocation wrote.
C2_Original ==
    ( /\ pc = "idle"
      /\ response # NoResponse
      /\ Succeeded
      /\ worst \in {"none", "format", "retryable"}
      /\ produced # None )
    =>
        /\ Len(log) = PairIndex(log[Len(log)], want)
        /\ response.kind = "file"
        /\ response.ext = produced
        /\ response.made = "cur"

\* C3: when every invocation raised "Requested format is not available",
\* the exhaustion error is raised after exactly 20 invocations of a video
\* request and 5 of an audio request, and the loop is over only then.
C3_ExhaustedAfterAll ==
    worst \in {"none", "format"} =>
        /\ pc = "raised" => Len(log) = IF want = "mp3" THEN 5 ELSE 20
        /\ (pc = "loop" /\ ci > Len(CLIENT_ORDER))
              => Len(log) = IF want = "mp3" THEN 5 ELSE 20

C3_Witness ==
    /\ pc = "raised"
    /\ worst = "format"
    /\ want = "mp4"
    /\ Len(log) = 20

\* C4: after an invocation failed fatally no other recipe of its profile is
\* tried, the next invocation is the first recipe of the next profile, the
\* exhaustion error follows only when the profile was the last one, and a
\* fatal first recipe leaves its profile with exactly one invocation.
C4_FatalSkipsProfileOnly ==
    FailedFatally =>
        LET n == outcome.n
            p == log[n].ci
        IN  /\ \A i \in 1..Len(log) : i > n => log[i].ci # p
            /\ Len(log) > n => (log[n + 1].ci = p + 1 /\ log[n + 1].fi = 1)
            /\ pc = "loop" => (ci = p + 1 /\ fi = 1)
            /\ pc = "raised" => p = Len(CLIENT_ORDER)
            /\ log[n].fi = 1 =>
                  Cardinality({ i \in 1..Len(log) : log[i].ci = p }) = 1

C4_Witness ==
    /\ FailedFatally
    /\ want = "mp4"
    /\ outcome.n = 1
    /\ Len(log) = 2
    /\ log[2].ci = 2

\* C5 as stated: the exhaustion error is raised only after every
\* (profile, recipe) pair was attempted.
C5_Original ==
    pc = "raised" =>
        \A c \in 1..Len(CLIENT_ORDER), f \in 1..Len(Recipes(want)) :
            \E i \in 1..Len(log) : log[i].ci = c /\ log[i].fi = f

\* C5: the exhaustion error is raised only after every profile was tried:
\* each profile was attempted with its first recipe, a recipe was attempted
\* only after the recipe before it of the same profile, and when no
\* invocation failed fatally every (profile, recipe) pair was attempted.
C5_EveryProfileTried ==
    pc = "raised" =>
        /\ \A c \in 1..Len(CLIENT_ORDER) :
              \E i \in 1..Len(log) : log[i].ci = c /\ log[i].fi = 1
        /\ \A i \in 1..Len(log) :
              log[i].fi > 1 =>
                  /\ i > 1
                  /\ log[i - 1].ci = log[i].ci
                  /\ log[i - 1].fi = log[i].fi - 1
        /\ worst # "fatal" =>
              \A c \in 1..Len(CLIENT_ORDER), f \in 1..Len(Recipes(want)) :
                  \E i \in 1..Len(log) : log[i].ci = c /\ log[i].fi = f

C5_Witness ==
    /\ pc = "raised"
    /\ want = "mp4"
    /\ worst = "fatal"
    /\ Len(log) = Len(CLIENT_ORDER)

\* the failure reason try_download forms for an outcome
ReasonOf(o) ==
    IF o.kind = "ret" THEN "yt-dlp exited with code" ELSE o.msg

\* C6: the exhaustion error carries the failure reason of the last
\* invocation made in the fetch.
C6_LastReason ==
    pc = "raised" =>
        /\ exc.type = "RuntimeError"
        /\ exc.last # NoErr
        /\ outcome.n = Len(log)
        /\ exc.last.n = Len(log)
        /\ exc.last.text = ReasonOf(outcome)
        /\ exc.last.code = outcome.code

C6_Witness ==
    /\ pc = "raised"
    /\ worst = "fatal"
    /\ outcome.kind = "ret"
    /\ Len(log) > Len(CLIENT_ORDER)

\* C7: the invocations follow the priority order: the first is the first
\* recipe of web with cookies, profiles come in the order web+cookies,
\* ios+cookies, android+cookies, web, android, each invocation is the next
\* recipe of the same profile or the first recipe of the next profile, and
\* after a failure that is not fatal it is the next recipe when one is left.
C7_PriorityOrder ==
    LET order == << <<"web", TRUE>>, <<"ios", TRUE>>, <<"android", TRUE>>,
                    <<"web", FALSE>>, <<"android", FALSE>> >>
    IN  /\ \A i \in 1..Len(log) :
              /\ log[i].ci \in 1..Len(order)
              /\ log[i].client = order[log[i].ci][1]
              /\ log[i].cookies = order[log[i].ci][2]
              /\ log[i].opts.player_client = order[log[i].ci][1]
              /\ log[i].fi \in 1..Len(Recipes(want))
              /\ log[i].fmt = Recipes(want)[log[i].fi][1]
        /\ Len(log) > 0 => (log[1].ci = 1 /\ log[1].fi = 1)
        /\ \A i \in 1..(Len(log) - 1) :
              \/ log[i + 1].ci = log[i].ci /\ log[i + 1].fi = log[i].fi + 1
              \/ log[i + 1].ci = log[i].ci + 1 /\ log[i + 1].fi = 1
        /\ (outcome # NoOutcome /\ ~Succeeded /\ ~FailedFatally
                /\ Len(log) > outcome.n) =>
              LET a == log[outcome.n]
                  b == log[outcome.n + 1]
              IN  IF a.fi < Len(Recipes(want))
                  THEN b.ci = a.ci /\ b.fi = a.fi + 1
                  ELSE b.ci = a.ci + 1 /\ b.fi = 1

C7_Witness ==
    /\ want = "mp4"
    /\ Len(log) = 20
    /\ log[20].client = "android"
    /\ ~log[20].cookies
    /\ log[20].fmt = "best"

\* C8: a profile without cookies never gets the cookie file, and a profile
\* with cookies gets it exactly when the file exists and is not empty.
C8_CookieFile ==
    \A i \in 1..Len(log) :
        /\ ~log[i].cookies => log[i].opts.cookiefile = None
        /\ log[i].cookies =>
              (log[i].opts.cookiefile # None
                  <=> (cookie.exists /\ cookie.size > 0))

C8_Witness ==
    /\ cookie.exists
    /\ cookie.size > 0
    /\ \E i \in 1..Len(log) : log[i].cookies /\ log[i].opts.cookiefile # None
    /\ \E i \in 1..Len(log) : ~log[i].cookies /\ log[i].opts.cookiefile = None

\* C9: no two invocations of a fetch are made with the same options.
C9_Original ==
    \A i, j \in 1..Len(log) : i # j => log[i].opts # log[j].opts

\* C10: at most one invocation is in flight, exactly while try_download is
\* inside download, and an invocation starts only when the one before it
\* has finished.
C10_Sequential ==
    /\ inflight <= 1
    /\ inflight = 1 <=> pc = "call"
    /\ pc = "call" =>
          outcome.n = Len(log) - 1
    /\ (pc # "call" /\ Len(log) > 0) => outcome.n = Len(log)

C10_Witness ==
    /\ pc = "call"
    /\ Len(log) = 3
    /\ outcome.n = 2

\* C11: a failure of one downloader invocation, retryable or fatal, stays
\* inside try_download: after it the loops go on, and the only exception the
\* caller sees is the RuntimeError raised once the loops have ended, carrying
\* the last failure.
C11_FailuresAbsorbed ==
    /\ (exc # NoExc) <=> (pc = "raised")
    /\ pc = "raised" =>
          /\ exc.type = "RuntimeError"
          /\ exc.last = last_err
          /\ ci > Len(CLIENT_ORDER)
          /\ ~Succeeded
    /\ (outcome.kind \in {"DownloadError", "Exception"} /\ pc # "call") =>
          pc \in {"loop", "raised"}

\* a fatal and a retryable failure happened and only the exhaustion error
\* left try_download
C11_Witness ==
    /\ pc = "raised"
    /\ exc.type = "RuntimeError"
    /\ worst = "fatal"
    /\ \E i \in 1..Len(log) : log[i].fi > 1

\* the extension of the file the handler expects for a format
Expected(w) == IF w = "mp3" THEN "mp3" ELSE "mp4"

\* the files of the current base name in the directory
Present == { e \in Exts : files[<<base, e>>] # "none" }

\* C12: whenever base + canonical extension exists, that file is the one
\* find_final_file returns and the handler serves, also when files of the
\* same base name with another extension exist and are newer.
C12_CanonicalFirst ==
    /\ (pc = "returned" /\ Expected(want) \in Present) =>
          find_final_file(files, base, want) = { Expected(want) }
    /\ (response.kind = "file" /\ Expected(want) \in Present) =>
          response.ext = Expected(want)

\* the canonical file is older than another file of the base name, and is
\* the one served
C12_Witness ==
    /\ response.kind = "file"
    /\ response.ext = Expected(want)
    /\ files[<<base, Expected(want)>>] = "old"
    /\ \E e \in Exts \ {Expected(want)} : files[<<base, e>>] = "cur"

\* C13 as stated: with the canonical file absent, the file served is the
\* newest of the files named base + extension.
C13_Original ==
    (/\ response.kind = "file"
     /\ Expected(want) \notin Present
     /\ \E e \in Present : files[<<base, e>>] = "cur")
       => response.made = "cur"

\* C14: a fetch that reported success and left no file named base + extension
\* ends the request with the error page: nothing is served and no further
\* downloader invocation is made.
C14_NoFileIsAnError ==
    /\ Succeeded => /\ pc \in {"returned", "idle"}
                    /\ outcome.n = Len(log)
    /\ (pc = "idle" /\ Succeeded /\ Present = {}) =>
          /\ response.kind = "error"
          /\ response.text = "Finished, but could not locate the output file."
          /\ response.ext = None
    /\ (pc = "idle" /\ Succeeded /\ Present # {}) => response.kind = "file"

\* the fetch succeeded, the directory holds no file of the base name, and
\* the request ended with the error
C14_Witness ==
    /\ pc = "idle"
    /\ Succeeded
    /\ Present = {}
    /\ response.kind = "error"
    /\ Len(log) > 1

\* both times of the crop request parse
TimesParse ==
    parse_timecode(c_req.start_time).ok /\ parse_timecode(c_req.end_time).ok

\* ffmpeg was invoked for the crop request
Transcoded == calls # << >>

\* the downloads directory holds no file written by the crop request
NothingWritten == \A n \in DOMAIN crop_out : crop_out[n] # "cur"

\* C15: a crop request whose end time is not after its start time ends with
\* an error: ffmpeg is never invoked for it, no output file is written and
\* none is served.
C15_OrderChecked ==
    (TimesParse /\ end_s <= start_s) =>
        /\ cpc = "idle"
        /\ c_response.kind = "error"
        /\ ~Transcoded
        /\ c_made = << >>
        /\ NothingWritten

\* a request of a video with equal start and end times was rejected for
\* the order of its times
C15_Witness ==
    /\ TimesParse
    /\ end_s = start_s
    /\ allowed_video(c_req.filename)
    /\ c_response.kind = "error"
    /\ c_response.text = "End time must be greater than start time."

\* C16: after a failed probe the duration check is skipped and ffmpeg is
\* invoked; after a successful probe a request whose end time exceeds the
\* probed duration is rejected and ffmpeg is not invoked.
C16_ProbeDegrades ==
    /\ (dur.done /\ ~dur.ok) =>
          /\ Len(calls) = 1
          /\ c_response.text # "Times must be within video duration"
    /\ (dur.done /\ dur.ok /\ end_s > dur.v) =>
          /\ cpc = "idle"
          /\ ~Transcoded
          /\ c_response.kind = "error"
          /\ c_response.text = "Times must be within video duration"

\* the probe failed on a request whose end time is beyond the end of the
\* video, and ffmpeg was invoked
C16_Witness ==
    /\ dur.done
    /\ ~dur.ok
    /\ end_s > c_req.content
    /\ Len(calls) = 1
    /\ cpc = "ffmpeg"

\* C17 as stated: every invocation of the segment remover has
\* end > start >= 0.
C17_Original ==
    \A i \in 1..Len(calls) :
        /\ calls[i].chains[1].val >= 0
        /\ calls[i].chains[3].val > calls[i].chains[1].val

\* C18 as stated: a non-zero exit of ffmpeg gives an error that carries what
\* ffmpeg wrote to stderr, ffmpeg was invoked once and no file is served.
C18_Original ==
    (cpc = "idle" /\ Transcoded /\ console # << >>) =>
        /\ c_response.kind = "error"
        /\ c_response.stderr = console[Len(console)]
        /\ Len(calls) = 1

\* the times a stream of the crop output shows, in order
Shown(stream) == [i \in 1..Len(stream.frames) |-> stream.frames[i].src]

\* the seconds a, a + 1, ..., b - 1
Span(a, b) == [i \in 1..(b - a) |-> a + i - 1]

\* C19: for 0 <= start < end <= duration the output is the part [0, start)
\* of the source followed by its part from end on: one video and one audio
\* stream, each duration - (end - start) long, on a gapless time line.
C19_SegmentRemoved ==
    (/\ c_response.kind = "file"
     /\ 0 <= start_s /\ start_s < end_s /\ end_s <= c_req.content) =>
        /\ Len(c_made) = 2
        /\ c_made[1].type = "video"
        /\ c_made[2].type = "audio"
        /\ \A m \in 1..Len(c_made) :
              /\ Shown(c_made[m]) =
                    Span(0, start_s) \o Span(end_s, c_req.content)
              /\ Len(c_made[m].frames) = c_req.content - (end_s - start_s)
              /\ \A i \in 1..Len(c_made[m].frames) :
                    c_made[m].frames[i].pts = i - 1

\* a cut from the middle of the video: both kept parts are not empty
C19_Witness ==
    /\ c_response.kind = "file"
    /\ 0 < start_s
    /\ start_s < end_s
    /\ end_s < c_req.content
    /\ Len(c_made) = 2

\* C20 as stated: no step writes over a file that an earlier request put in
\* a downloads directory.
C20_Original ==
    [][ /\ \A n \in DOMAIN crop_out :
              (crop_out[n] = "old" /\ n \in DOMAIN crop_out')
                  => crop_out'[n] = "old"
        /\ \A f \in DOMAIN files : files[f] = "old" => files'[f] = "old" ]_vars

\* C21: a request saves under a name it saw free; two requests of the same
\* output name that end up on one path both saw it free, each having checked
\* before the other wrote, and the file is written twice.
C21_CheckThenWrite ==
    /\ \A r \in Requests :
          ic_pc[r] \in {"save", "done"} => ic_out_path[r] \notin ic_seen[r]
    /\ \A r, q \in Requests :
          (/\ r # q
           /\ ic_pc[r] = "done" /\ ic_pc[q] = "done"
           /\ ic_out_path[r] = ic_out_path[q]) =>
              /\ ic_out_path[r] \notin ic_seen[r] \cup ic_seen[q]
              /\ Len(ic_dir[ic_out_path[r]]) >= 2

\* two requests of the same output name chose the same path and both
\* wrote it
C21_Witness ==
    \E r, q \in Requests :
        /\ r # q
        /\ ic_pc[r] = "done" /\ ic_pc[q] = "done"
        /\ ic_safe_out[r] = ic_safe_out[q]
        /\ ic_out_path[r] = ic_out_path[q]
        /\ ic_dir[ic_out_path[r]] = <<r, q>>

\* C22: when every downloader invocation comes back, try_download ends: it
\* returns after a success or raises the exhaustion error.
C22_FetchEnds == <>(pc \in {"returned", "raised"})

\* the longest fetch: twenty invocations, then the exhaustion error
C22_Witness ==
    /\ pc = "raised"
    /\ Len(log) = Len(CLIENT_ORDER) * Len(FORMAT_ORDER)

\* the entry of a name in the directory listed
EntryOf(n) ==
    lf_dir.entries[CHOOSE i \in 1..Len(lf_dir.entries) :
                       lf_dir.entries[i].name = n]

\* C23: list_files returns, once each, the names of the entries of the
\* directory that are files, the newer before the older, and the empty list
\* when the directory does not exist.
C23_NewestFirst ==
    lf_result.done =>
        LET names == lf_result.names
        IN  /\ ~lf_dir.exists => names = << >>
            /\ { names[i] : i \in 1..Len(names) } =
                   { lf_dir.entries[i].name :
                       i \in { j \in 1..Len(lf_dir.entries) :
                                 lf_dir.entries[j].kind = "file" } }
            /\ \A i, j \in 1..Len(names) : i # j => names[i] # names[j]
            /\ \A i, j \in 1..Len(names) :
                   i < j => EntryOf(names[i]).mtime >= EntryOf(names[j]).mtime

\* a directory with a sub-directory and two files, the older one first in
\* the order of iterdir, has been listed
C23_Witness ==
    /\ lf_result.done
    /\ Len(lf_result.names) = 2
    /\ Len(lf_dir.entries) = 3
    /\ lf_dir.entries[1].kind = "file"
    /\ lf_dir.entries[1].name = lf_result.names[2]
    /\ EntryOf(lf_result.names[1]).mtime > EntryOf(lf_result.names[2]).mtime

\* C24: in an audio request every profile gets one invocation at most, with
\* the best-audio format expression and no merge container.
C24_AudioOneRecipe ==
    want = "mp3" =>
        /\ Len(Recipes(want)) = 1
        /\ \A i \in 1..Len(log) :
              /\ log[i].fi = 1
              /\ log[i].fmt = "bestaudio/best"
              /\ log[i].merge_to = None
              /\ log[i].opts.format = "bestaudio/best"
              /\ log[i].opts.merge_output_format = None
        /\ \A i, j \in 1..Len(log) : i # j => log[i].ci # log[j].ci

\* an audio request went through all five profiles
C24_Witness ==
    /\ want = "mp3"
    /\ pc = "raised"
    /\ Len(log) = Len(CLIENT_ORDER)
    /\ worst # "fatal"

\* C25: a fetch makes at most 20 invocations for video and 5 for audio, no
\* (profile, recipe) pair twice, and at least one before it ends.
C25_InvocationBounds ==
    /\ Len(log) <= Len(CLIENT_ORDER) * Len(Recipes(want))
    /\ want = "mp3" => Len(log) <= 5
    /\ want # "mp3" => Len(log) <= 20
    /\ \A i, j \in 1..Len(log) :
          i # j => <<log[i].ci, log[i].fi>> # <<log[j].ci, log[j].fi>>
    /\ pc \in {"returned", "raised"} => Len(log) >= 1

\* a video fetch ended after twenty invocations, the last one a success
C25_Witness ==
    /\ want = "mp4"
    /\ pc = "returned"
    /\ Len(log) = 20

\* C26 as stated: the file served for a successful request is the one its
\* own successful invocation wrote.
C26_Original ==
    response.kind = "file" =>
        /\ response.made = "cur"
        /\ response.ext = produced

\* C27: after a non-zero exit code the code is the latest failure reason
\* and the loop goes on with the next recipe of the same profile.
C27_NonZeroGoesOn ==
    (outcome.kind = "ret" /\ outcome.code # 0) =>
        /\ last_err = [n |-> outcome.n, text |-> "yt-dlp exited with code",
                       code |-> outcome.code]
        /\ LET prev == log[outcome.n]
               nxt  == IF Len(log) > outcome.n
                       THEN <<log[outcome.n + 1].ci, log[outcome.n + 1].fi>>
                       ELSE <<ci, fi>>
           IN  IF prev.fi < Len(Recipes(want))
               THEN nxt = <<prev.ci, prev.fi + 1>>
               ELSE nxt = <<prev.ci + 1, 1>>

\* the first recipe of a profile exited with a non-zero code and the
\* second recipe of that profile has been started
C27_Witness ==
    /\ outcome.kind = "ret"
    /\ outcome.code # 0
    /\ pc = "call"
    /\ Len(log) = outcome.n + 1
    /\ log[outcome.n].fi = 1
    /\ log[Len(log)].fi = 2
    /\ log[Len(log)].ci = log[outcome.n].ci

\* C28: try_download has returned exactly when an invocation returned exit
\* code 0, which then is the last invocation made; while it runs and when it
\* raises, no invocation has returned 0.
C28_ReturnsIffSuccess ==
    /\ (pc = "returned") <=> Succeeded
    /\ Succeeded => (outcome.n = Len(log) /\ inflight = 0)
    /\ pc = "raised" =>
          /\ outcome.kind \in {"ret", "DownloadError", "Exception"}
          /\ outcome.kind = "ret" => outcome.code # 0
          /\ outcome.n = Len(log)
          /\ worst # "none"

\* the error was raised after failures of each kind but the fatal one
C28_Witness ==
    /\ pc = "raised"
    /\ worst = "nonzero"
    /\ outcome.kind = "DownloadError"

\* a crop request rejected by a validation of the handler
RejectedFor(text) == c_response.kind = "error" /\ c_response.text = text

\* no upload was saved by the crop request
NothingUploaded == \A n \in DOMAIN uploads : uploads[n] # "cur"

\* C29 as stated: a crop request rejected for a timecode, for the order of
\* its times or for the probed duration saved no upload and wrote no output.
C29_Original ==
    (\/ (c_response.kind = "error" /\ ~TimesParse /\ allowed_video(c_req.filename))
     \/ RejectedFor("End time must be greater than start time.")
     \/ RejectedFor("Times must be within video duration")) =>
        /\ NothingUploaded
        /\ NothingWritten

\* C29: a request rejected for a timecode or for the order of its times
\* saved no upload and wrote no output; a request rejected for the probed
\* duration wrote no output and ran no ffmpeg, and its upload was saved.
C29_RejectFrame ==
    /\ (\/ (c_response.kind = "error" /\ ~TimesParse
            /\ allowed_video(c_req.filename))
        \/ RejectedFor("End time must be greater than start time.")) =>
          /\ NothingUploaded
          /\ NothingWritten
          /\ ~Transcoded
    /\ RejectedFor("Times must be within video duration") =>
          /\ NothingWritten
          /\ ~Transcoded
          /\ At(uploads, secure_filename(c_req.filename)) = "cur"

\* a request was rejected for the probed duration while the uploads
\* directory held the file of an earlier request, now written over
C29_Witness ==
    /\ RejectedFor("Times must be within video duration")
    /\ dur.ok
    /\ end_s > dur.v
    /\ At(uploads, secure_filename(c_req.filename)) = "cur"
    /\ crop_out # << >>

\* the tiles of row r of the puzzle, in order
RowOf(r) == SelectSeq(pz_pieces, LAMBDA t : t.r = r)

\* the saved tiles partition the image: rows * cols tiles, each row starting
\* at the left edge and each tile where the previous one ended, widths
\* summing to W, heights to H, sizes differing by 1 at most, larger first
Partitioned ==
    /\ Len(pz_pieces) = rows * cols
    /\ \A r \in 1..rows :
          /\ Len(RowOf(r)) = cols
          /\ RowOf(r)[1].x0 = 0
          /\ RowOf(r)[cols].x1 = pz_req.W
          /\ \A c \in 1..(cols - 1) : RowOf(r)[c + 1].x0 = RowOf(r)[c].x1
          /\ \A c \in 1..cols :
                /\ RowOf(r)[c].y0 = (IF r = 1 THEN 0 ELSE RowOf(r - 1)[1].y1)
                /\ RowOf(r)[c].y1 = RowOf(r)[1].y1
    /\ RowOf(rows)[1].y1 = pz_req.H
    /\ \A i, j \in 1..Len(pz_pieces) :
          i < j =>
             LET a == pz_pieces[i]
                 b == pz_pieces[j]
             IN  /\ a.r = b.r =>
                       (a.x1 - a.x0) - (b.x1 - b.x0) \in {0, 1}
                 /\ (a.y1 - a.y0) - (b.y1 - b.y0) \in {0, 1}

\* C30 as stated: every accepted request on an image that opens ends with
\* rows * cols tiles that partition the image.
C30_Original ==
    (pz_req.opens /\ pz_response.kind # "none") =>
        /\ pz_response.kind = "file"
        /\ Partitioned

====
